---- MODULE Spec2Model ----
(***************************************************************************)
(* Document Manager UI of the Cheshire Cat plugin ccat_document_manager.   *)
(*                                                                         *)
(* The repository holds three variants of the page script:                 *)
(*   "v2"  : src/document_manager.js lines 1-319   (allChunks,             *)
(*           pendingAction, executeAction, refreshDocuments)               *)
(*   "v43" : src/document_manager.js lines 321-551 (chunks, pendingSrc,    *)
(*           executeDeletion, refreshList)                                 *)
(*   "v40" : src/unnamed/part_000                  (chunks, pendingSrc,    *)
(*           executeDeletion, refreshList)                                 *)
(* A behaviour of the model runs one of them; `variant` says which.        *)
(* Every event handler is one action; an async function is one action up   *)
(* to its await and one action (...Resume) from the response on.           *)
(***************************************************************************)
EXTENDS Integers, Sequences, FiniteSets, TLC

VARIABLES
    variant,        \* which script of the repository is running
    server,         \* the backend's authoritative chunk list
    net,            \* requests in flight, in the order they were issued
    chunks,         \* v40/v43: let chunks
    pendingSrc,     \* v40/v43: let pendingSrc
    allChunks,      \* v2: let allChunks
    pendingAction,  \* v2: let pendingAction
    refreshTimers,  \* v2: number of pending setTimeout(refreshDocuments, 300)
    listHost,       \* content of #documentsContent
    stats,          \* v2: the header statistics written by updateStats
    notifications,  \* children of #notifications, oldest first
    searchValue,    \* the value of #searchInput
    renderTimers,   \* ids of the pending timers set by debounce()
    debounceT,      \* debounce: let t (0 while undefined)
    listTimers,     \* v43: number of pending setTimeout(refreshList, 2000)
    ingesting,      \* uploads the backend has accepted and not yet stored
    infoPanel,      \* v40/v43: #infoPanel, its visible class and its body
    actionMenu,     \* v2: the .action-dropdown-clone in the body, if any
    theme,          \* data-theme of the page and what it is derived from
    last            \* what the last step was, where the state does not show it

vars == <<variant, server, net, chunks, pendingSrc, allChunks, pendingAction,
          refreshTimers, listHost, stats, notifications, searchValue,
          renderTimers, debounceT, listTimers, ingesting, infoPanel,
          actionMenu, theme, last>>

(***************************************************************************)
(* Bounds of the model.                                                    *)
(***************************************************************************)
\* requests in flight plus pending refresh timers
MaxInFlight == 2
\* longest chunk list the search is explored on
MaxChunks == 3
\* most re-renders that may be scheduled at once
MaxPendingRenders == 2
\* most notifications on the page at once, where they are studied alone
MaxVisible == 3
\* most menu clones a toggle that removes none may pile up in the body
MaxMenus == 2

(***************************************************************************)
(* Data.  A source is a string, modelled as a sequence of characters; the  *)
(* empty sequence stands for null and for '' alike (both are falsy).       *)
(***************************************************************************)
Null == <<>>
SrcA == <<"A", ".", "p", "d", "f">>
SrcB == <<"b", ".", "t", "x", "t">>
Sources == {SrcA, SrcB}
\* a source that is the name of a property of Object.prototype
SrcProto == <<"c", "o", "n", "s", "t", "r", "u", "c", "t", "o", "r">>

Doc1 == [source |-> SrcA, chunk_index |-> 0, page_content_length |-> 100, when |-> 5]
Doc2 == [source |-> SrcB, chunk_index |-> 0, page_content_length |-> 50,  when |-> 9]
Doc3 == [source |-> SrcA, chunk_index |-> 1, page_content_length |-> 200, when |-> 2]
\* what the backend stores when the page is loaded
ServerDocs == <<Doc1, Doc2, Doc3>>
\* the file the user uploads, and the chunk the backend makes of it
SrcU == <<"c", ".", "m", "d">>
DocU == [source |-> SrcU, chunk_index |-> 0, page_content_length |-> 10, when |-> 12]
\* a second chunk of SrcB, as old as the chunk of SrcA
DocT == [source |-> SrcB, chunk_index |-> 1, page_content_length |-> 25, when |-> 5]
\* a chunk of a file named constructor
DocP == [source |-> SrcProto, chunk_index |-> 0, page_content_length |-> 7, when |-> 7]
\* a second, large chunk of SrcA
DocK == [source |-> SrcA, chunk_index |-> 1, page_content_length |-> 2048, when |-> 6]
\* a chunk of one character and a chunk with no content, both of SrcB
DocO == [source |-> SrcB, chunk_index |-> 0, page_content_length |-> 1, when |-> 3]
DocE == [source |-> SrcB, chunk_index |-> 1, page_content_length |-> 0, when |-> 3]

V4 == {"v40", "v43"}
Variants == V4 \cup {"v2"}

(***************************************************************************)
(* Sequence helpers.                                                       *)
(***************************************************************************)
RemoveAt(s, i) == SubSeq(s, 1, i - 1) \o SubSeq(s, i + 1, Len(s))

RECURSIVE SumSizes(_)
SumSizes(cs) ==
    IF cs = <<>> THEN 0 ELSE Head(cs).page_content_length + SumSizes(Tail(cs))

RECURSIVE MaxWhen(_)
MaxWhen(cs) ==
    IF cs = <<>> THEN 0
    ELSE LET m == MaxWhen(Tail(cs)) IN IF Head(cs).when > m THEN Head(cs).when ELSE m

\* the chunks of cs whose source is src, in order
OfSource(cs, src) == SelectSeq(cs, LAMBDA c : c.source = src)

\* the distinct sources of cs in order of first occurrence (the insertion
\* order of the keys of the grouping object)
RECURSIVE KeysOf(_)
KeysOf(cs) ==
    IF cs = <<>> THEN <<>>
    ELSE LET init == KeysOf(SubSeq(cs, 1, Len(cs) - 1))
             k    == cs[Len(cs)].source
         IN  IF \E i \in 1..Len(init) : init[i] = k THEN init ELSE Append(init, k)

(***************************************************************************)
(* Messages are strings, modelled as sequences of tokens so that string    *)
(* concatenation is \o.                                                    *)
(***************************************************************************)
NoMsg         == <<>>
RemovedMsg    == <<"Document removed">>
ClearedMsg    == <<"Rabbit hole cleared">>
ServerErrMsg  == <<"backend refused">>
DeniedBodyMsg == <<"Access denied", ": not an admin">>
TransportMsg  == <<"Failed to fetch">>

Note(msg, kind) == [msg |-> msg, kind |-> kind]

(***************************************************************************)
(* HTTP.  A request in flight is sent first, then possibly answered by the *)
(* backend (ServerProcess); the response the page sees is chosen when the  *)
(* awaiting function resumes.                                              *)
(***************************************************************************)
Request(kind, src) ==
    [kind |-> kind, source |-> src, answered |-> FALSE,
     documents |-> <<>>, hasDocuments |-> FALSE, message |-> NoMsg]

\* the 200 response carrying what the backend answered
OkResponse(req) ==
    [rejected |-> FALSE, status |-> "200", success |-> TRUE,
     message |-> req.message, documents |-> req.documents,
     hasDocuments |-> req.hasDocuments, error |-> NoMsg]

FailedResponse(rejected, status, message, error) ==
    [rejected |-> rejected, status |-> status, success |-> FALSE,
     message |-> message, documents |-> <<>>, hasDocuments |-> FALSE,
     error |-> error]

\* fetch() rejects: the request could not complete
TransportFailure == FailedResponse(TRUE, "0", NoMsg, NoMsg)
\* a non-OK status
HttpFailure(status) == FailedResponse(FALSE, status, NoMsg, NoMsg)
\* a 200 response whose body says success = false, with or without message
Refusal(message) == FailedResponse(FALSE, "200", message, NoMsg)
\* a 200 response whose body is { error: 'Access denied...' }
DeniedBody == FailedResponse(FALSE, "200", NoMsg, DeniedBodyMsg)

Failures ==
    {TransportFailure, HttpFailure("403"), HttpFailure("500"),
     Refusal(ServerErrMsg), Refusal(NoMsg), DeniedBody}

\* the responses an awaiting function may see for request req
Responses(req) == (IF req.answered THEN {OkResponse(req)} ELSE {}) \cup Failures

IsFailure(r) == r.rejected \/ r.status # "200" \/ ~r.success

\* String.prototype.includes('Access denied') on the tokens of a message
IncludesAccessDenied(m) == \E i \in 1..Len(m) : m[i] = "Access denied"

\* the value a request wrapper returns: null, or the parsed body
NullData    == [isNull |-> TRUE,  body |-> TransportFailure]
Data(r)     == [isNull |-> FALSE, body |-> r]


(***************************************************************************)
(* Request wrappers.  Each returns the data handed to its caller and the   *)
(* notifications it enqueued itself.                                       *)
(***************************************************************************)
Fetched(data, notes) == [data |-> data, notes |-> notes]

\* part_000: api
api40(r) ==
    IF r.rejected
    THEN Fetched(NullData, <<Note(TransportMsg, "error")>>)
    ELSE IF r.status # "200"
    THEN IF r.status \in {"401", "403"}
         THEN Fetched(NullData,
                      <<Note(<<"Access denied: admin rights required">>, "error")>>)
         ELSE Fetched(NullData, <<Note(<<"HTTP ", r.status>>, "error")>>)
    ELSE IF IncludesAccessDenied(r.error)
    THEN Fetched(NullData, <<Note(r.error, "error")>>)
    ELSE Fetched(Data(r), <<>>)

\* document_manager.js (v4.3): api
api43(r) ==
    IF r.rejected
    THEN Fetched(NullData, <<Note(TransportMsg, "error")>>)
    ELSE IF r.status # "200"
    THEN Fetched(NullData, <<Note(<<"HTTP ", r.status>>, "error")>>)
    ELSE Fetched(Data(r), <<>>)

\* a request wrapper that fails without a notification of its own
api_Silent(r) ==
    Fetched((IF variant = "v40" THEN api40(r) ELSE api43(r)).data, <<>>)

api(r) == IF variant = "v40" THEN api40(r) ELSE api43(r)

\* Response.statusText
statusText(status) ==
    CASE status = "403" -> "Forbidden"
      [] status = "401" -> "Unauthorized"
      [] status = "500" -> "Internal Server Error"
      [] OTHER -> "OK"

\* document_manager.js (v2): fetchData
fetchData(r) ==
    IF r.rejected
    THEN Fetched(NullData, <<Note(<<"Error: ">> \o TransportMsg, "error")>>)
    ELSE IF r.status # "200"
    THEN Fetched(NullData,
                 <<Note(<<"Error: ", "Network response was not ok: ", statusText(r.status)>>,
                        "error")>>)
    ELSE Fetched(Data(r), <<>>)

(***************************************************************************)
(* Rendering.                                                              *)
(***************************************************************************)
LowerChar(c) ==
    CASE c = "A" -> "a" [] c = "B" -> "b" [] c = "P" -> "p" [] c = "D" -> "d"
      [] c = "F" -> "f" [] c = "T" -> "t" [] c = "X" -> "x" [] OTHER -> c

toLowerCase(s) == [i \in 1..Len(s) |-> LowerChar(s[i])]

\* String.prototype.includes
includes(s, t) ==
    \E i \in 0..(Len(s) - Len(t)) : SubSeq(s, i + 1, i + Len(t)) = t

Loading == [state |-> "loading", docs |-> <<>>]
CouldNotLoad == [state |-> "failed", docs |-> <<>>]
NoDocuments == [state |-> "none", docs |-> <<>>]
Rendered(docs) == IF docs = <<>> THEN NoDocuments ELSE [state |-> "docs", docs |-> docs]

\* The grouping object is {}: for a source that names a property it
\* inherits (constructor, toString, __proto__, ...) the lookup
\* grouped[c.source] finds that property, no group is created and
\* g.list.push(c) throws a TypeError.
InheritedKeys == {SrcProto}
Throws(cs) == \E k \in 1..Len(cs) : cs[k].source \in InheritedKeys
\* the outcome of a rendering that threw
Thrown == [state |-> "thrown", docs |-> <<>>]

\* v40/v43 renderList: the content it gives #documentsContent for chunk
\* list cs and search input value
renderList(cs, value) ==
    IF Throws(cs) THEN Thrown ELSE
    LET term == toLowerCase(value)
        keys == KeysOf(cs)
        grouped == [k \in 1..Len(keys) |->
                      [src  |-> keys[k],
                       n    |-> Len(OfSource(cs, keys[k])),
                       size |-> SumSizes(OfSource(cs, keys[k]))]]
        docs == IF term # <<>>
                THEN SelectSeq(grouped, LAMBDA d : includes(toLowerCase(d.src), term))
                ELSE grouped
    IN  Rendered(docs)

\* Array.prototype.sort((a, b) => b.lastUpdate - a.lastUpdate): stable,
\* descending by lastUpdate
RECURSIVE InsertByLastUpdate(_, _)
InsertByLastUpdate(sorted, d) ==
    IF sorted = <<>> THEN <<d>>
    ELSE IF Head(sorted).lastUpdate >= d.lastUpdate
         THEN <<Head(sorted)>> \o InsertByLastUpdate(Tail(sorted), d)
         ELSE <<d>> \o sorted

RECURSIVE SortByLastUpdate(_)
SortByLastUpdate(docs) ==
    IF docs = <<>> THEN <<>>
    ELSE InsertByLastUpdate(SortByLastUpdate(SubSeq(docs, 1, Len(docs) - 1)),
                            docs[Len(docs)])

\* v2 renderDocuments
renderDocuments(cs, value) ==
    IF Throws(cs) THEN Thrown ELSE
    LET filter == toLowerCase(value)
        keys == KeysOf(cs)
        aggregatedDocs == [k \in 1..Len(keys) |->
                      [src        |-> keys[k],
                       n          |-> Len(OfSource(cs, keys[k])),
                       size       |-> SumSizes(OfSource(cs, keys[k])),
                       lastUpdate |-> MaxWhen(OfSource(cs, keys[k]))]]
        documentsToRender ==
                IF filter # <<>>
                THEN SelectSeq(aggregatedDocs,
                               LAMBDA d : includes(toLowerCase(d.src), filter))
                ELSE aggregatedDocs
    IN  Rendered(SortByLastUpdate(documentsToRender))

\* the content of #documentsContent after a rendering with outcome out: a
\* rendering that threw has assigned nothing
Shown(out) == IF out = Thrown THEN listHost ELSE out

\* a row of source src, with its buttons, is on the page
OnPage(src) ==
    /\ listHost.state = "docs"
    /\ \E k \in 1..Len(listHost.docs) : listHost.docs[k].src = src

(***************************************************************************)
(* State after DOMContentLoaded: the theme is set, the listeners are       *)
(* attached and the first list request is in flight.                       *)
(***************************************************************************)
NoAction == [type |-> "none", source |-> Null]

\* window.parent.document is cross-origin: reading it throws
Denied == "denied"
\* the enclosing document has no data-theme, or an empty one
Absent == ""
\* the page's own data-theme before any script has set it
Unset == "unset"
\* what reading the enclosing document's data-theme may give
ParentThemes == {Denied, Absent, "dark", "light"}

\* the theme preference of matchMedia('(prefers-color-scheme: dark)')
preferred(matches) == IF matches THEN "dark" ELSE "light"

\* v40/v43 syncTheme(): the data-theme it sets and whether it subscribes to
\* the media query, for the enclosing theme parent and the preference
syncTheme(parent, matches) ==
    IF parent \notin {Denied, Absent}
    THEN [parent |-> parent, matches |-> matches, applied |-> parent,
          subscribed |-> FALSE]
    ELSE [parent |-> parent, matches |-> matches, applied |-> preferred(matches),
          subscribed |-> TRUE]

\* v2 detectCatTheme()
detectCatTheme(parent, matches) ==
    IF parent \notin {Denied, Absent}
    THEN [parent |-> parent, matches |-> matches, applied |-> parent,
          subscribed |-> FALSE]
    ELSE [parent |-> parent, matches |-> matches, applied |-> Unset,
          subscribed |-> FALSE]

\* the theme state once the script of variant v has initialised
Themed(v, parent, matches) ==
    IF v = "v2" THEN detectCatTheme(parent, matches) ELSE syncTheme(parent, matches)

\* the info panel as the markup has it: hidden, with an empty body
NoPanel == [visible |-> FALSE, body |-> <<>>]
\* the last step left the modal without confirming
Cancelled == "cancelled"
\* the last step was a confirm event with nothing pending
Ignored == "ignored"
\* the last step was the failure branch of a deletion
Failed == "failed"
\* the last step was a keystroke that found a re-render scheduled
Rescheduled == "rescheduled"
\* the last step opened a menu where the menu of another row was open, or
\* a confirmation where the confirmation of another source was pending
Replaced == "replaced"
\* the last step was a change signal of the colour-scheme media query
Signalled == "signalled"
\* any other step
Quiet == "-"

Init ==
    /\ variant \in Variants
    /\ server = ServerDocs
    /\ net = <<Request("list", Null)>>
    /\ chunks = <<>>
    /\ pendingSrc = Null
    /\ allChunks = <<>>
    /\ pendingAction = NoAction
    /\ refreshTimers = 0
    /\ listHost = Loading
    /\ stats = [shown |-> FALSE, totalSize |-> 0]
    /\ notifications = <<>>
    /\ searchValue = <<>>
    /\ renderTimers = {}
    /\ debounceT = 0
    /\ listTimers = 0
    /\ ingesting = 0
    /\ infoPanel = NoPanel
    /\ actionMenu = Null
    /\ theme = Themed(variant, "dark", TRUE)
    /\ last = Quiet

\* requests in flight and refresh timers pending
Load == Len(net) + refreshTimers + listTimers

V2Vars == <<allChunks, pendingAction, refreshTimers, stats>>
V4Vars == <<chunks, pendingSrc>>
SearchVars == <<searchValue, renderTimers, debounceT>>
UploadVars == <<listTimers, ingesting>>
\* the state of search and upload
WidgetVars == <<infoPanel, actionMenu, theme>>
SideVars == <<SearchVars, UploadVars, WidgetVars>>

(***************************************************************************)
(* The backend and the notification timers.                                *)
(***************************************************************************)
\* the backend answers request i
ServerProcess(i) ==
    /\ i \in 1..Len(net)
    /\ ~net[i].answered
    /\ net[i].kind \in {"list", "remove", "clear"}
    /\ LET req == net[i] IN
       CASE req.kind = "list" ->
               /\ \E has \in (IF server = <<>> THEN {TRUE, FALSE} ELSE {TRUE}) :
                    net' = [net EXCEPT ![i] = [req EXCEPT !.answered = TRUE,
                                                          !.documents = server,
                                                          !.hasDocuments = has]]
               /\ UNCHANGED server
         [] req.kind = "remove" ->
               /\ server' = SelectSeq(server, LAMBDA c : c.source # req.source)
               /\ net' = [net EXCEPT ![i] = [req EXCEPT !.answered = TRUE,
                                                        !.message = RemovedMsg]]
         [] req.kind = "clear" ->
               /\ server' = <<>>
               /\ net' = [net EXCEPT ![i] = [req EXCEPT !.answered = TRUE,
                                                        !.message = ClearedMsg]]
    /\ UNCHANGED <<variant, SideVars, V4Vars, V2Vars, listHost, notifications>>
    /\ last' = Quiet

\* notify / toast / showNotification: setTimeout(() => el.remove(), 5000);
\* the timers have one delay, so they fire in the order they were set
NotificationTimeout ==
    /\ notifications # <<>>
    /\ notifications' = Tail(notifications)
    /\ UNCHANGED <<variant, SideVars, server, net, V4Vars, V2Vars, listHost>>
    /\ last' = Quiet

\* A response is handled once the notifications of the responses handled
\* before it have timed out: the stack holds the notifications of one
\* handler at most.
HasRoom == notifications = <<>>


(***************************************************************************)
(* v40 / v43: confirm modal, deletion, list refresh.                       *)
(***************************************************************************)
\* a removal that drops the first chunk of src only
removeSource_FirstOnly(cs, src) ==
    IF \E k \in 1..Len(cs) : cs[k].source = src
    THEN RemoveAt(cs, CHOOSE k \in 1..Len(cs) :
                        /\ cs[k].source = src
                        /\ \A j \in 1..(k - 1) : cs[j].source # src)
    ELSE cs

\* a removal that also puts the remaining chunks in reverse order
removeSource_Reversed(cs, src) ==
    LET kept == SelectSeq(cs, LAMBDA c : c.source # src)
    IN  [k \in 1..Len(kept) |-> kept[Len(kept) + 1 - k]]

\* chunks.filter(c => c.source !== src)
removeSource(cs, src) == SelectSeq(cs, LAMBDA c : c.source # src)

\* data.documents || chunks: the old list is kept when the field is absent
documentsOr_Kept(body) ==
    IF body.hasDocuments THEN body.documents
    ELSE IF variant = "v2" THEN allChunks ELSE chunks

\* data.documents || []
documentsOr(body) == IF body.hasDocuments THEN body.documents ELSE <<>>

\* d?.success
succeeded(data) == ~data.isNull /\ data.body.success

\* an open that keeps the target of the confirmation that is pending
openConfirmModal_KeepsFirst(src) ==
    /\ variant \in V4
    /\ OnPage(src)
    /\ pendingSrc' = (IF pendingSrc = Null THEN src ELSE pendingSrc)
    /\ last' = (IF pendingSrc \notin {Null, src} THEN Replaced ELSE Quiet)
    /\ UNCHANGED <<variant, SideVars, server, net, chunks, V2Vars, listHost, notifications>>

\* the DELETE button of a row: openConfirmModal(source)
openConfirmModal(src) ==
    /\ variant \in V4
    /\ OnPage(src)
    /\ pendingSrc' = src
    /\ last' = (IF pendingSrc \notin {Null, src} THEN Replaced ELSE Quiet)
    /\ UNCHANGED <<variant, SideVars, server, net, chunks, V2Vars, listHost, notifications>>

\* a cancel that hides the modal and keeps the pending source
closeConfirm_KeepsPending ==
    /\ variant \in V4
    /\ pendingSrc # Null
    /\ last' = Cancelled
    /\ UNCHANGED <<variant, SideVars, server, net, chunks, pendingSrc, V2Vars, listHost,
                   notifications>>

\* the cancel button of the modal: closeConfirm()
closeConfirm ==
    /\ variant \in V4
    /\ pendingSrc # Null
    /\ pendingSrc' = Null
    /\ last' = Cancelled
    /\ UNCHANGED <<variant, SideVars, server, net, chunks, V2Vars, listHost, notifications>>

\* a confirm that clears the pending source after the await only
executeDeletion_ClearsLate ==
    /\ variant \in V4
    /\ IF pendingSrc = Null
       THEN UNCHANGED <<chunks, listHost, net>>
       ELSE /\ Load < MaxInFlight
            /\ chunks' = removeSource(chunks, pendingSrc)
            /\ listHost' = Shown(renderList(chunks', searchValue))
            /\ net' = IF renderList(chunks', searchValue) = Thrown
                      THEN net
                      ELSE Append(net, Request("remove", pendingSrc))
    /\ last' = IF pendingSrc = Null THEN Ignored ELSE Quiet
    /\ UNCHANGED <<variant, SideVars, server, pendingSrc, V2Vars, notifications>>

\* the OK button of the modal: executeDeletion() up to its await
executeDeletion ==
    /\ variant \in V4
    /\ IF pendingSrc = Null
       THEN UNCHANGED <<pendingSrc, chunks, listHost, net>>
       ELSE /\ Load < MaxInFlight
            /\ pendingSrc' = Null
            /\ chunks' = removeSource(chunks, pendingSrc)
            /\ listHost' = Shown(renderList(chunks', searchValue))
            /\ net' = IF renderList(chunks', searchValue) = Thrown
                      THEN net
                      ELSE Append(net, Request("remove", pendingSrc))
    /\ last' = IF pendingSrc = Null THEN Ignored ELSE Quiet
    /\ UNCHANGED <<variant, SideVars, server, V2Vars, notifications>>

\* a 'Deletion failed' text that leaves the server's message out
deletionFailed_NoMessage(data) ==
    <<"Deletion failed: ">> \o (IF variant = "v40" THEN <<"Unknown error">> ELSE <<>>)

\* the text of the 'Deletion failed' notification
deletionFailed(data) ==
    <<"Deletion failed: ">> \o
    (IF variant = "v40"
     THEN (IF data.isNull \/ data.body.message = NoMsg
           THEN <<"Unknown error">> ELSE data.body.message)
     ELSE (IF data.isNull THEN <<>> ELSE data.body.message))

\* a failure branch that forgets the rollback from the backend
executeDeletionResume_NoResync(i, r) ==
    /\ variant \in V4
    /\ net[i].kind = "remove"
    /\ HasRoom
    /\ LET got == api(r) IN
       IF succeeded(got.data)
       THEN notifications' =
                  notifications \o got.notes \o <<Note(got.data.body.message, "success")>>
       ELSE notifications' =
                  notifications \o got.notes \o <<Note(deletionFailed(got.data), "error")>>
    /\ net' = RemoveAt(net, i)
    /\ last' = IF succeeded(api(r).data) THEN Quiet ELSE Failed
    /\ UNCHANGED <<variant, SideVars, server, V4Vars, V2Vars, listHost>>

\* executeDeletion() from the response to request i on
executeDeletionResume(i, r) ==
    /\ variant \in V4
    /\ net[i].kind = "remove"
    /\ HasRoom
    /\ LET got == api(r) IN
       IF succeeded(got.data)
       THEN /\ notifications' =
                  notifications \o got.notes \o <<Note(got.data.body.message, "success")>>
            /\ net' = RemoveAt(net, i)
            /\ UNCHANGED listHost
       ELSE /\ notifications' =
                  notifications \o got.notes \o <<Note(deletionFailed(got.data), "error")>>
            /\ listHost' = Loading
            /\ net' = Append(RemoveAt(net, i), Request("list", Null))
    /\ last' = IF succeeded(api(r).data) THEN Quiet ELSE Failed
    /\ UNCHANGED <<variant, SideVars, server, V4Vars, V2Vars>>

\* a continuation that sends the list request again when it failed
refreshListResume_Retry(i, r) ==
    /\ variant \in V4
    /\ net[i].kind = "list"
    /\ HasRoom
    /\ LET got == api(r) IN
       /\ notifications' = notifications \o got.notes
       /\ IF succeeded(got.data)
          THEN /\ chunks' = documentsOr(got.data.body)
               /\ listHost' = Shown(renderList(chunks', searchValue))
               /\ net' = RemoveAt(net, i)
          ELSE /\ listHost' = Loading
               /\ net' = Append(RemoveAt(net, i), Request("list", Null))
               /\ UNCHANGED chunks
    /\ last' = Quiet
    /\ UNCHANGED <<variant, SideVars, server, pendingSrc, V2Vars>>

\* a continuation that drops the response when a list request issued after
\* this one is still in flight
refreshListResume_NewestOnly(i, r) ==
    /\ variant \in V4
    /\ net[i].kind = "list"
    /\ HasRoom
    /\ LET got == api(r) IN
       /\ notifications' = notifications \o got.notes
       /\ IF succeeded(got.data)
          THEN IF \E j \in (i + 1)..Len(net) : net[j].kind = "list"
               THEN UNCHANGED <<chunks, listHost>>
               ELSE /\ chunks' = documentsOr(got.data.body)
                    /\ listHost' = Shown(renderList(chunks', searchValue))
          ELSE /\ listHost' = CouldNotLoad
               /\ UNCHANGED chunks
    /\ net' = RemoveAt(net, i)
    /\ last' = Quiet
    /\ UNCHANGED <<variant, SideVars, server, pendingSrc, V2Vars>>

\* refreshList() from the response to request i on
refreshListResume(i, r) ==
    /\ variant \in V4
    /\ net[i].kind = "list"
    /\ HasRoom
    /\ LET got == api(r) IN
       /\ notifications' = notifications \o got.notes
       /\ IF succeeded(got.data)
          THEN /\ chunks' = documentsOr(got.data.body)
               /\ listHost' = Shown(renderList(chunks', searchValue))
          ELSE /\ listHost' = CouldNotLoad
               /\ UNCHANGED chunks
    /\ net' = RemoveAt(net, i)
    /\ last' = Quiet
    /\ UNCHANGED <<variant, SideVars, server, pendingSrc, V2Vars>>

(***************************************************************************)
(* v43: upload.                                                            *)
(***************************************************************************)
UploadingMsg == <<"Uploading ", "1", " file", "...">>

\* the file input's change event: uploadFiles(files) up to its await, for
\* the one file SrcU, which the backend does not hold yet
uploadFiles ==
    /\ variant = "v43"
    /\ Load < MaxInFlight
    /\ HasRoom
    /\ ingesting = 0
    /\ \A k \in 1..Len(server) : server[k].source # SrcU
    /\ \A k \in 1..Len(net) : net[k].kind # "upload"
    /\ notifications' = Append(notifications, Note(UploadingMsg, "success"))
    /\ net' = Append(net, Request("upload", SrcU))
    /\ last' = Quiet
    /\ UNCHANGED <<variant, WidgetVars, SearchVars, UploadVars, server, V4Vars, V2Vars, listHost>>

\* uploadFiles() from the response to request i on.  fetch is not wrapped:
\* when it rejects, the function ends there.
uploadFilesResume(i, r) ==
    /\ variant = "v43"
    /\ net[i].kind = "upload"
    /\ HasRoom
    /\ IF r.rejected
       THEN /\ net' = RemoveAt(net, i)
            /\ UNCHANGED <<notifications, listHost, listTimers>>
       ELSE IF r.status # "200"
       THEN /\ notifications' = Append(notifications, Note(<<"Upload failed">>, "error"))
            /\ net' = RemoveAt(net, i)
            /\ UNCHANGED <<listHost, listTimers>>
       ELSE /\ Load < MaxInFlight
            /\ notifications' = Append(notifications, Note(<<"Upload complete">>, "success"))
            /\ listHost' = Loading
            /\ net' = Append(RemoveAt(net, i), Request("list", Null))
            /\ listTimers' = listTimers + 1
    /\ last' = Quiet
    /\ UNCHANGED <<variant, WidgetVars, SearchVars, ingesting, server, V4Vars, V2Vars>>

\* setTimeout(refreshList, 2000) fires: refreshList() up to its await
refreshListTimerFires ==
    /\ variant = "v43"
    /\ listTimers > 0
    /\ listTimers' = listTimers - 1
    /\ listHost' = Loading
    /\ net' = Append(net, Request("list", Null))
    /\ last' = Quiet
    /\ UNCHANGED <<variant, WidgetVars, SearchVars, ingesting, server, V4Vars, V2Vars, notifications>>

\* the backend accepts the batch of request i; it stores the chunks later
BatchProcess(i) ==
    /\ i \in 1..Len(net)
    /\ ~net[i].answered
    /\ net[i].kind = "upload"
    /\ net' = [net EXCEPT ![i] = [net[i] EXCEPT !.answered = TRUE]]
    /\ ingesting' = ingesting + 1
    /\ last' = Quiet
    /\ UNCHANGED <<variant, WidgetVars, SearchVars, listTimers, server, V4Vars, V2Vars, listHost,
                   notifications>>

\* the backend has vectorised an accepted file: its chunk is stored
Ingest ==
    /\ ingesting > 0
    /\ ingesting' = ingesting - 1
    /\ server' = Append(server, DocU)
    /\ last' = Quiet
    /\ UNCHANGED <<variant, WidgetVars, SearchVars, listTimers, net, V4Vars, V2Vars, listHost,
                   notifications>>

(***************************************************************************)
(* v2: confirm modal, remove / clear, list refresh.                        *)
(***************************************************************************)
\* updateStats(stats) on chunk list cs
updateStats(shown, cs) == [shown |-> shown, totalSize |-> SumSizes(cs)]

\* the Remove entry of a row's menu: confirmRemoveDocument(source)
confirmRemoveDocument(src) ==
    /\ variant = "v2"
    /\ OnPage(src)
    /\ pendingAction' = [type |-> "remove", source |-> src]
    /\ last' = (IF pendingAction.type = "remove" /\ pendingAction.source # src
                THEN Replaced ELSE Quiet)
    /\ UNCHANGED <<variant, SideVars, server, net, V4Vars, allChunks, refreshTimers, stats,
                   listHost, notifications>>

\* #clearAllButton: confirmClearAll()
confirmClearAll ==
    /\ variant = "v2"
    /\ pendingAction' = [type |-> "clear", source |-> Null]
    /\ last' = Quiet
    /\ UNCHANGED <<variant, SideVars, server, net, V4Vars, allChunks, refreshTimers, stats,
                   listHost, notifications>>

\* Escape, or a click on the modal's backdrop: closeModal('confirmModal')
closeModal ==
    /\ variant = "v2"
    /\ pendingAction # NoAction
    /\ pendingAction' = NoAction
    /\ last' = Cancelled
    /\ UNCHANGED <<variant, SideVars, server, net, V4Vars, allChunks, refreshTimers, stats,
                   listHost, notifications>>

\* the confirm button of the modal: executeAction() up to its await
executeAction ==
    /\ variant = "v2"
    /\ IF pendingAction = NoAction
       THEN UNCHANGED <<pendingAction, net>>
       ELSE /\ Load < MaxInFlight
            /\ pendingAction' = NoAction
            /\ net' = Append(net, Request(pendingAction.type, pendingAction.source))
    /\ last' = IF pendingAction = NoAction THEN Ignored ELSE Quiet
    /\ UNCHANGED <<variant, SideVars, server, V4Vars, allChunks, refreshTimers, stats,
                   listHost, notifications>>

\* a resumption that schedules the refresh whatever the result says
executeActionResume_AlwaysRefresh(i, r) ==
    /\ variant = "v2"
    /\ net[i].kind \in {"remove", "clear"}
    /\ HasRoom
    /\ LET got == fetchData(r)
           result == got.data
       IN  IF result.isNull
           THEN /\ notifications' = notifications \o got.notes
                /\ UNCHANGED refreshTimers
           ELSE /\ notifications' =
                      Append(notifications,
                             Note(result.body.message,
                                  IF result.body.success THEN "success" ELSE "error"))
                /\ refreshTimers' = refreshTimers + 1
    /\ net' = RemoveAt(net, i)
    /\ last' = Quiet
    /\ UNCHANGED <<variant, SideVars, server, V4Vars, allChunks, pendingAction, stats, listHost>>

\* executeAction() from the response to request i on
executeActionResume(i, r) ==
    /\ variant = "v2"
    /\ net[i].kind \in {"remove", "clear"}
    /\ HasRoom
    /\ LET got == fetchData(r)
           result == got.data
       IN  IF result.isNull
           THEN /\ notifications' = notifications \o got.notes
                /\ UNCHANGED refreshTimers
           ELSE /\ notifications' =
                      Append(notifications,
                             Note(result.body.message,
                                  IF result.body.success THEN "success" ELSE "error"))
                /\ refreshTimers' =
                      IF result.body.success THEN refreshTimers + 1 ELSE refreshTimers
    /\ net' = RemoveAt(net, i)
    /\ last' = Quiet
    /\ UNCHANGED <<variant, SideVars, server, V4Vars, allChunks, pendingAction, stats, listHost>>

\* #refreshButton: refreshDocuments() up to its await
refreshDocuments ==
    /\ variant = "v2"
    /\ Load < MaxInFlight
    /\ listHost' = Loading
    /\ net' = Append(net, Request("list", Null))
    /\ last' = Quiet
    /\ UNCHANGED <<variant, SideVars, server, V4Vars, V2Vars, notifications>>

\* setTimeout(refreshDocuments, 300) fires: refreshDocuments() up to its await
refreshTimerFires ==
    /\ variant = "v2"
    /\ refreshTimers > 0
    /\ refreshTimers' = refreshTimers - 1
    /\ listHost' = Loading
    /\ net' = Append(net, Request("list", Null))
    /\ last' = Quiet
    /\ UNCHANGED <<variant, SideVars, server, V4Vars, allChunks, pendingAction, stats,
                   notifications>>

\* refreshDocuments() from the response to request i on
refreshDocumentsResume(i, r) ==
    /\ variant = "v2"
    /\ net[i].kind = "list"
    /\ HasRoom
    /\ LET got == fetchData(r) IN
       /\ notifications' = notifications \o got.notes
       /\ IF succeeded(got.data)
          THEN /\ allChunks' = documentsOr(got.data.body)
               /\ stats' = updateStats(TRUE, allChunks')
               /\ listHost' = Shown(renderDocuments(allChunks', searchValue))
          ELSE /\ listHost' = CouldNotLoad
               /\ stats' = updateStats(FALSE, allChunks)
               /\ UNCHANGED allChunks
    /\ net' = RemoveAt(net, i)
    /\ last' = Quiet
    /\ UNCHANGED <<variant, SideVars, server, V4Vars, pendingAction, refreshTimers>>

(***************************************************************************)
(* The specification.                                                      *)
(***************************************************************************)
Next ==
    \/ \E src \in Sources : openConfirmModal(src)
    \/ closeConfirm
    \/ executeDeletion
    \/ \E i \in 1..Len(net) : \E r \in Responses(net[i]) : executeDeletionResume(i, r)
    \/ \E i \in 1..Len(net) : \E r \in Responses(net[i]) : refreshListResume(i, r)
    \/ \E src \in Sources : confirmRemoveDocument(src)
    \/ confirmClearAll
    \/ closeModal
    \/ executeAction
    \/ \E i \in 1..Len(net) : \E r \in Responses(net[i]) : executeActionResume(i, r)
    \/ refreshDocuments
    \/ refreshTimerFires
    \/ \E i \in 1..Len(net) : \E r \in Responses(net[i]) : refreshDocumentsResume(i, r)
    \/ \E i \in 1..Len(net) : ServerProcess(i)
    \/ NotificationTimeout

Spec == Init /\ [][Next]_vars

\* The v4.0 / v4.3 page alone, where the backend answers every request,
\* every notification times out after 5 s and refreshList() resumes once
\* its request is settled.
InitV4 == Init /\ variant \in V4

NextV4 ==
    \/ \E src \in Sources : openConfirmModal(src)
    \/ closeConfirm
    \/ executeDeletion
    \/ \E i \in 1..Len(net) : \E r \in Responses(net[i]) : executeDeletionResume(i, r)
    \/ \E i \in 1..Len(net) : \E r \in Responses(net[i]) : refreshListResume(i, r)
    \/ \E i \in 1..Len(net) : ServerProcess(i)
    \/ NotificationTimeout

FairSpecV4 ==
    /\ InitV4 /\ [][NextV4]_vars
    /\ WF_vars(\E i \in 1..Len(net) : ServerProcess(i))
    /\ WF_vars(NotificationTimeout)
    /\ WF_vars(\E i \in 1..Len(net) : \E r \in Responses(net[i]) : refreshListResume(i, r))

(***************************************************************************)
(* The search input.  The page has loaded a chunk list and rendered it;    *)
(* the user types, opens and cancels confirmations.                        *)
(***************************************************************************)
\* records a list response may carry
ChunkPool == {Doc1, Doc2, DocT, DocP}
\* chunk lists of at most MaxChunks records
LoadedLists == UNION {[1..n -> ChunkPool] : n \in 0..MaxChunks}
\* values the user gives the search input
Queries == {<<>>, <<"a">>, <<"P", "D">>, <<"t">>, <<"z">>}

\* the chunk list of the running script
ChunkList == IF variant = "v2" THEN allChunks ELSE chunks

\* the rendering function of the script
render(cs, value) ==
    IF variant = "v2" THEN renderDocuments(cs, value) ELSE renderList(cs, value)

\* timer handles not in use among live
FreeHandle(live) == CHOOSE id \in (1..(Cardinality(live) + 1)) \ live : TRUE

\* an input listener that schedules the re-render without clearTimeout
searchInput_NoCancel(q) ==
    /\ q # searchValue
    /\ Cardinality(renderTimers) < MaxPendingRenders
    /\ searchValue' = q
    /\ debounceT' = FreeHandle(renderTimers)
    /\ renderTimers' = renderTimers \cup {debounceT'}
    /\ last' = (IF renderTimers # {} THEN Rescheduled ELSE Quiet)
    /\ UNCHANGED <<variant, WidgetVars, UploadVars, server, net, V4Vars, V2Vars, listHost, notifications>>

\* an input event that makes the value of #searchInput q: the function
\* debounce returned clears the timeout it set last and sets a new one
searchInput(q) ==
    LET live == renderTimers \ {debounceT} IN
    /\ q # searchValue
    /\ Cardinality(live) < MaxPendingRenders
    /\ searchValue' = q
    /\ debounceT' = FreeHandle(live)
    /\ renderTimers' = live \cup {debounceT'}
    /\ last' = (IF renderTimers # {} THEN Rescheduled ELSE Quiet)
    /\ UNCHANGED <<variant, WidgetVars, UploadVars, server, net, V4Vars, V2Vars, listHost, notifications>>

\* a re-render that drops from the chunk list the records the query hides
debounceFires_FiltersStore(id) ==
    LET kept == SelectSeq(ChunkList,
                          LAMBDA c : includes(toLowerCase(c.source), toLowerCase(searchValue)))
    IN
    /\ id \in renderTimers
    /\ renderTimers' = renderTimers \ {id}
    /\ listHost' = Shown(render(ChunkList, searchValue))
    /\ chunks' = (IF variant = "v2" THEN chunks ELSE kept)
    /\ allChunks' = (IF variant = "v2" THEN kept ELSE allChunks)
    /\ last' = Quiet
    /\ UNCHANGED <<variant, WidgetVars, UploadVars, server, net, pendingSrc, pendingAction,
                   refreshTimers, stats, notifications, searchValue, debounceT>>

\* a timeout set by the debounced listener fires, 300 ms after it was set:
\* the rendering function runs
debounceFires(id) ==
    /\ id \in renderTimers
    /\ renderTimers' = renderTimers \ {id}
    /\ listHost' = Shown(render(ChunkList, searchValue))
    /\ last' = Quiet
    /\ UNCHANGED <<variant, WidgetVars, UploadVars, server, net, V4Vars, V2Vars, notifications,
                   searchValue, debounceT>>

\* the page after it loaded the chunk list cs and rendered it
InitSearch ==
    /\ variant \in Variants
    /\ \E cs \in LoadedLists :
          /\ server = cs
          /\ chunks = (IF variant = "v2" THEN <<>> ELSE cs)
          /\ allChunks = (IF variant = "v2" THEN cs ELSE <<>>)
          /\ stats = (IF variant = "v2" THEN updateStats(TRUE, cs)
                                       ELSE [shown |-> FALSE, totalSize |-> 0])
          /\ listHost = (IF Throws(cs) THEN Loading ELSE render(cs, <<>>))
    /\ net = <<>>
    /\ pendingSrc = Null
    /\ pendingAction = NoAction
    /\ refreshTimers = 0
    /\ notifications = <<>>
    /\ searchValue = <<>>
    /\ renderTimers = {}
    /\ debounceT = 0
    /\ listTimers = 0
    /\ ingesting = 0
    /\ infoPanel = NoPanel
    /\ actionMenu = Null
    /\ theme = Themed(variant, "dark", TRUE)
    /\ last = Quiet

NextSearch ==
    \/ \E q \in Queries : searchInput(q)
    \/ \E id \in renderTimers : debounceFires(id)
    \/ \E src \in Sources \cup {SrcProto} : openConfirmModal(src)
    \/ closeConfirm
    \/ \E src \in Sources \cup {SrcProto} : confirmRemoveDocument(src)
    \/ closeModal

SearchSpec == InitSearch /\ [][NextSearch]_vars

(***************************************************************************)
(* The notification stack on its own: any handler may raise any            *)
(* notification at any time, while the user types in the search input.     *)
(***************************************************************************)
\* notifications the handlers raise
Notes ==
    {Note(TransportMsg, "error"), Note(RemovedMsg, "success"),
     Note(<<"Deletion failed: ">> \o ServerErrMsg, "error")}

\* a notify that skips a message that is already on the page
notify_Dedup(msg, kind) ==
    /\ Len(notifications) < MaxVisible
    /\ notifications' =
          (IF \E k \in 1..Len(notifications) : notifications[k] = Note(msg, kind)
           THEN notifications
           ELSE Append(notifications, Note(msg, kind)))
    /\ last' = Quiet
    /\ UNCHANGED <<variant, SideVars, server, net, V4Vars, V2Vars, listHost>>

\* notify(msg, kind) / toast(msg, kind) / showNotification(message, type):
\* a new element is appended to #notifications and its timeout is set
notify(msg, kind) ==
    /\ Len(notifications) < MaxVisible
    /\ notifications' = Append(notifications, Note(msg, kind))
    /\ last' = Quiet
    /\ UNCHANGED <<variant, SideVars, server, net, V4Vars, V2Vars, listHost>>

NextNotify ==
    \/ \E n \in Notes : notify(n.msg, n.kind)
    \/ NotificationTimeout
    \/ \E q \in Queries : searchInput(q)
    \/ \E id \in renderTimers : debounceFires(id)

NotifySpec == Init /\ [][NextNotify]_vars

(***************************************************************************)
(* v40 / v43: the info panel.                                              *)
(***************************************************************************)
\* the number total / n as JavaScript computes it: a fraction, and NaN
\* (written 0 / 0) when both are 0
Quotient(total, n) == [num |-> total, den |-> n]
IsNaN(b) == b.num = 0 /\ b.den = 0

\* Math.floor(Math.log(b) / Math.log(1024)) for a positive fraction b of
\* at least 1 / 1024 and less than 1024^3
LogIndex(b) ==
    IF b.num < b.den THEN -1
    ELSE IF b.num < 1024 * b.den THEN 0
    ELSE IF b.num < 1024 * 1024 * b.den THEN 1
    ELSE 2

\* ['Bytes', 'KB', 'MB', 'GB', 'TB'][i]
UnitAt(i) ==
    IF i < 0 THEN "undefined"
    ELSE <<"Bytes", "KB", "MB", "GB", "TB">>[i + 1]

\* a / b rounded to the nearest integer
Rounded(a, b) == (2 * a + b) \div (2 * b)

\* (b / Math.pow(1024, i)).toFixed(2), in hundredths
toFixed2(b, i) ==
    CASE i = -1 -> Rounded(100 * 1024 * b.num, b.den)
      [] i = 0  -> Rounded(100 * b.num, b.den)
      [] i = 1  -> Rounded(100 * b.num, 1024 * b.den)
      [] i = 2  -> Rounded(100 * b.num, 1024 * 1024 * b.den)

\* the text '0 Bytes'
ZeroBytes == [hundredths |-> 0, unit |-> "Bytes"]

\* bytes(b) / fmtBytes(b): the amount shown and its unit
bytes(b) ==
    IF IsNaN(b) \/ b.num = 0 THEN ZeroBytes
    ELSE [hundredths |-> toFixed2(b, LogIndex(b)), unit |-> UnitAt(LogIndex(b))]

\* the first k elements of sequence s, all of them if it has fewer
FirstOf(s, k) == SubSeq(s, 1, IF Len(s) < k THEN Len(s) ELSE k)

\* the markup showInfoPanel builds for source src from chunk list cs
InfoBody(cs, src) ==
    LET docs  == OfSource(cs, src)
        total == SumSizes(docs)
    IN  [src     |-> src,
         n       |-> Len(docs),
         total   |-> bytes(Quotient(total, 1)),
         average |-> bytes(Quotient(total, Len(docs))),
         preview |-> [k \in 1..Len(FirstOf(docs, 5)) |-> docs[k].chunk_index],
         more    |-> IF Len(docs) > 5 THEN Len(docs) - 5 ELSE 0]

\* window.showInfoPanel(source), from a card's button or from any script
\* of the page
showInfoPanel(src) ==
    /\ variant \in V4
    /\ infoPanel' = [visible |-> TRUE, body |-> <<InfoBody(chunks, src)>>]
    /\ last' = Quiet
    /\ UNCHANGED <<variant, SearchVars, UploadVars, actionMenu, theme, server, net,
                   V4Vars, V2Vars, listHost, notifications>>

\* #closeInfoPanel or the overlay is clicked: closeInfo()
closeInfo ==
    /\ variant \in V4
    /\ infoPanel.visible
    /\ infoPanel' = [infoPanel EXCEPT !.visible = FALSE]
    /\ last' = Quiet
    /\ UNCHANGED <<variant, SearchVars, UploadVars, actionMenu, theme, server, net,
                   V4Vars, V2Vars, listHost, notifications>>

\* records a list response may carry, with sizes from none to kilobytes
InfoPool == {Doc1, DocK, DocO, DocE}
InfoLists == UNION {[1..n -> InfoPool] : n \in 0..MaxChunks}

\* a v4 page after it loaded a chunk list of InfoLists and rendered it
InitInfo ==
    /\ variant \in V4
    /\ chunks \in InfoLists
    /\ server = chunks
    /\ listHost = renderList(chunks, <<>>)
    /\ allChunks = <<>>
    /\ stats = [shown |-> FALSE, totalSize |-> 0]
    /\ net = <<>>
    /\ pendingSrc = Null
    /\ pendingAction = NoAction
    /\ refreshTimers = 0
    /\ notifications = <<>>
    /\ searchValue = <<>>
    /\ renderTimers = {}
    /\ debounceT = 0
    /\ listTimers = 0
    /\ ingesting = 0
    /\ infoPanel = NoPanel
    /\ actionMenu = Null
    /\ theme = Themed(variant, "dark", TRUE)
    /\ last = Quiet

NextInfo ==
    \/ \E src \in Sources : showInfoPanel(src)
    \/ closeInfo
    \/ \E src \in Sources : openConfirmModal(src)
    \/ closeConfirm
    \/ executeDeletion

InfoSpec == InitInfo /\ [][NextInfo]_vars

(***************************************************************************)
(* v2: the floating action menu.  actionMenu holds the clones of a row's   *)
(* dropdown that are children of the body, in document order; each is      *)
(* written as the row it was opened from (dataset.sourceButton, the row's  *)
(* outerHTML, which the row's entry determines).                           *)
(***************************************************************************)
\* document.querySelector('.action-dropdown-clone')?.remove()
removeClone(menus) == IF menus = <<>> THEN <<>> ELSE Tail(menus)

\* a toggle that appends the new clone without removing the open one
toggleActionMenu_KeepsOther(k) ==
    /\ variant = "v2"
    /\ listHost.state = "docs"
    /\ k \in 1..Len(listHost.docs)
    /\ Len(actionMenu) < MaxMenus
    /\ LET row == listHost.docs[k] IN
       IF actionMenu # <<>> /\ Head(actionMenu) = row
       THEN /\ actionMenu' = Tail(actionMenu)
            /\ last' = Quiet
       ELSE /\ actionMenu' = Append(actionMenu, row)
            /\ last' = (IF actionMenu # <<>> THEN Replaced ELSE Quiet)
    /\ UNCHANGED <<variant, SearchVars, UploadVars, infoPanel, theme, server, net,
                   V4Vars, V2Vars, listHost, notifications>>

\* the menu button of row k is clicked: toggleActionMenu(event)
toggleActionMenu(k) ==
    /\ variant = "v2"
    /\ listHost.state = "docs"
    /\ k \in 1..Len(listHost.docs)
    /\ LET row == listHost.docs[k] IN
       IF actionMenu # <<>> /\ Head(actionMenu) = row
       THEN /\ actionMenu' = Tail(actionMenu)
            /\ last' = Quiet
       ELSE /\ actionMenu' = Append(removeClone(actionMenu), row)
            /\ last' = (IF actionMenu # <<>> THEN Replaced ELSE Quiet)
    /\ UNCHANGED <<variant, SearchVars, UploadVars, infoPanel, theme, server, net,
                   V4Vars, V2Vars, listHost, notifications>>

\* a click anywhere but on a menu button while a menu is open, on the
\* backdrop of the confirm modal (onModal) or elsewhere: the document's
\* click listener
documentClick(onModal) ==
    /\ variant = "v2"
    /\ actionMenu # <<>>
    /\ onModal => pendingAction # NoAction
    /\ actionMenu' = removeClone(actionMenu)
    /\ pendingAction' = (IF onModal THEN NoAction ELSE pendingAction)
    /\ last' = (IF onModal THEN Cancelled ELSE Quiet)
    /\ UNCHANGED <<variant, SearchVars, UploadVars, infoPanel, theme, server, net,
                   V4Vars, allChunks, refreshTimers, stats, listHost, notifications>>

\* the Escape key while a menu is open: the document's keydown listener
keydownEscape ==
    /\ variant = "v2"
    /\ actionMenu # <<>>
    /\ actionMenu' = removeClone(actionMenu)
    /\ pendingAction' = NoAction
    /\ last' = (IF pendingAction # NoAction THEN Cancelled ELSE Quiet)
    /\ UNCHANGED <<variant, SearchVars, UploadVars, infoPanel, theme, server, net,
                   V4Vars, allChunks, refreshTimers, stats, listHost, notifications>>

\* the Remove entry of the open menu: confirmRemoveDocument(source) of the
\* row the clone was made from
menuRemove ==
    /\ variant = "v2"
    /\ actionMenu # <<>>
    /\ actionMenu' = removeClone(actionMenu)
    /\ pendingAction' = [type |-> "remove", source |-> Head(actionMenu).src]
    /\ last' = Quiet
    /\ UNCHANGED <<variant, SearchVars, UploadVars, infoPanel, theme, server, net,
                   V4Vars, allChunks, refreshTimers, stats, listHost, notifications>>

\* the View Preview entry of the open menu: showPreview(source)
showPreview ==
    /\ variant = "v2"
    /\ actionMenu # <<>>
    /\ actionMenu' = removeClone(actionMenu)
    /\ last' = Quiet
    /\ UNCHANGED <<variant, SearchVars, UploadVars, infoPanel, theme, server, net,
                   V4Vars, V2Vars, listHost, notifications>>

\* the v2 page after it loaded a chunk list and rendered it
InitMenu == InitSearch /\ variant = "v2"

NextMenu ==
    \/ \E k \in 1..Len(listHost.docs) : toggleActionMenu(k)
    \/ \E onModal \in BOOLEAN : documentClick(onModal)
    \/ keydownEscape
    \/ menuRemove
    \/ showPreview

MenuSpec == InitMenu /\ [][NextMenu]_vars

(***************************************************************************)
(* The theme.  The enclosing document and the preference of the            *)
(* environment are what they are when the page loads; the preference may   *)
(* change while the page is used.                                          *)
(***************************************************************************)
\* a change of the preference that no listener applies
preferenceChange_Ignored ==
    /\ theme' = [theme EXCEPT !.matches = ~theme.matches]
    /\ last' = Signalled
    /\ UNCHANGED <<variant, SearchVars, UploadVars, infoPanel, actionMenu, server, net,
                   V4Vars, V2Vars, listHost, notifications>>

\* the environment's preference changes: the media query's change event,
\* handled by the listener syncTheme added, if it added one
preferenceChange ==
    /\ theme' = [theme EXCEPT !.matches = ~theme.matches,
                              !.applied = IF theme.subscribed
                                          THEN preferred(~theme.matches)
                                          ELSE theme.applied]
    /\ last' = Signalled
    /\ UNCHANGED <<variant, SearchVars, UploadVars, infoPanel, actionMenu, server, net,
                   V4Vars, V2Vars, listHost, notifications>>

\* the page after DOMContentLoaded, in any enclosing document and with
\* either preference
InitTheme ==
    /\ variant \in Variants
    /\ \E parent \in ParentThemes : \E matches \in BOOLEAN :
          theme = Themed(variant, parent, matches)
    /\ server = ServerDocs
    /\ net = <<Request("list", Null)>>
    /\ chunks = <<>>
    /\ pendingSrc = Null
    /\ allChunks = <<>>
    /\ pendingAction = NoAction
    /\ refreshTimers = 0
    /\ listHost = Loading
    /\ stats = [shown |-> FALSE, totalSize |-> 0]
    /\ notifications = <<>>
    /\ searchValue = <<>>
    /\ renderTimers = {}
    /\ debounceT = 0
    /\ listTimers = 0
    /\ ingesting = 0
    /\ infoPanel = NoPanel
    /\ actionMenu = Null
    /\ last = Quiet

NextTheme ==
    \/ preferenceChange
    \/ \E q \in Queries : searchInput(q)
    \/ \E id \in renderTimers : debounceFires(id)

ThemeSpec == InitTheme /\ [][NextTheme]_vars

\* The v4.0 / v4.3 page with the upload of v4.3.
NextUpload ==
    \/ NextV4
    \/ uploadFiles
    \/ \E i \in 1..Len(net) : \E r \in Responses(net[i]) : uploadFilesResume(i, r)
    \/ refreshListTimerFires
    \/ \E i \in 1..Len(net) : BatchProcess(i)
    \/ Ingest

UploadSpec == InitV4 /\ [][NextUpload]_vars

(***************************************************************************)
(* Vocabulary of the properties.                                           *)
(***************************************************************************)
\* a PendingAction exists (the controller is Pending)
Pending == IF variant = "v2" THEN pendingAction # NoAction ELSE pendingSrc # Null

Destructive(req) == req.kind \in {"remove", "clear"}

\* the positions of net holding a remove or clear request
DestructiveInFlight == {i \in 1..Len(net) : Destructive(net[i])}

\* a confirmed action is Executing: its request is sent, its response not
\* yet handled
Executing == DestructiveInFlight # {}

\* no chunk of cs has source src
NoneOf(cs, src) == \A k \in 1..Len(cs) : cs[k].source # src

\* cs without the chunks of source src, the others in their order
RECURSIVE Without(_, _)
Without(cs, src) ==
    IF cs = <<>> THEN <<>>
    ELSE IF Head(cs).source = src THEN Without(Tail(cs), src)
         ELSE <<Head(cs)>> \o Without(Tail(cs), src)

\* the number of list requests in flight
ListsInFlight == Cardinality({i \in 1..Len(net) : net[i].kind = "list"})

(***************************************************************************)
(* C1.  While a confirmed deletion is Executing, a request to open a new   *)
(* confirmation is rejected or ignored: no PendingAction exists until the  *)
(* controller is back in Idle.                                             *)
(* The scripts do not do so: openConfirmModal / openModal assign the       *)
(* pending target whatever is in flight.                                   *)
(***************************************************************************)
C1_NoPendingWhileExecuting == (variant \in V4 /\ Executing) => ~Pending

(***************************************************************************)
(* C2.  At most one destructive request (remove or clear) is in flight.    *)
(* The scripts allow two: nothing stops a second confirmation while the    *)
(* first request is awaited (C1).                                          *)
(***************************************************************************)
C2_OneDestructiveInFlight == Cardinality(DestructiveInFlight) <= 1


C5_SuccessMeansAbsent ==
    [][ \A i \in 1..Len(net) : \A r \in Responses(net[i]) :
           (executeDeletionResume(i, r) /\ ~IsFailure(r)) =>
              NoneOf(chunks', net[i].source) ]_vars

FailedAlone ==
    /\ variant \in V4
    /\ last = Failed
    /\ ~Executing

\* another action intervenes, or the resync is not answered successfully
Intervened == Pending \/ Executing \/ listHost = CouldNotLoad

\* C7: from a failed deletion with no other action under way, the chunk
\* list comes to equal the backend's list, unless a confirmation is opened,
\* a removal is sent or the resync fails
C7_ResyncRestores == FailedAlone ~> (chunks = server \/ Intervened)

\* the removal of SrcB has failed in transport, then the backend has
\* answered the resync with its list, which still holds SrcB; the page
\* holds the optimistic list
C7_Witness ==
    /\ variant = "v40"
    /\ last = Quiet
    /\ notifications = <<Note(TransportMsg, "error"),
                         Note(<<"Deletion failed: ", "Unknown error">>, "error")>>
    /\ chunks = <<Doc1, Doc3>>
    /\ server = ServerDocs
    /\ pendingSrc = Null
    /\ net = <<[Request("list", Null) EXCEPT !.answered = TRUE,
                                             !.documents = ServerDocs,
                                             !.hasDocuments = TRUE]>>


(***************************************************************************)
(* C8.  Leaving Pending without confirming (cancel button, outside click,  *)
(* Escape) discards the PendingAction and has no other effect: the chunk   *)
(* list is unchanged, no request is sent, no notification is enqueued; a   *)
(* subsequent confirm event does nothing.                                  *)
(***************************************************************************)
\* what a step may change besides the pending action
Effects == <<server, net, chunks, allChunks, refreshTimers, listHost, stats,
             notifications>>

\* C8: a cancel step starts with a pending action, ends with none and
\* changes nothing else; a confirm event that follows it changes nothing
C8_CancelDiscardsOnly ==
    [][ /\ (closeConfirm \/ closeModal \/ last' = Cancelled) =>
              /\ Pending
              /\ ~Pending'
              /\ UNCHANGED Effects
        /\ (last = Cancelled /\ (executeDeletion \/ executeAction)) =>
              /\ ~Pending'
              /\ UNCHANGED Effects ]_vars

\* a confirmation was opened and cancelled: no pending source, the list is
\* complete, nothing is in flight, no notification is on the page
C8_Witness ==
    /\ variant \in V4
    /\ last = Cancelled
    /\ pendingSrc = Null
    /\ chunks = ServerDocs
    /\ server = ServerDocs
    /\ net = <<>>
    /\ notifications = <<>>

(***************************************************************************)
(* C9.  Each PendingAction is consumed exactly once: repeated confirm      *)
(* events for one opened confirmation send at most one destructive request *)
(* and apply the optimistic removal at most once; the pending value is     *)
(* cleared before the request is awaited.                                  *)
(***************************************************************************)
\* C9: a confirm event with a pending action clears it in the same step and
\* sends exactly one request, which is destructive; a confirm event with
\* none changes nothing; a destructive request is sent only by a step that
\* consumes a pending action
C9_ConsumedOnce ==
    [][ /\ (executeDeletion \/ executeAction) =>
              IF Pending
              THEN /\ ~Pending'
                   /\ Len(net') = Len(net) + 1
                   /\ SubSeq(net', 1, Len(net)) = net
                   /\ Destructive(net'[Len(net')])
                   /\ ~net'[Len(net')].answered
              ELSE /\ ~Pending'
                   /\ UNCHANGED Effects
        /\ Cardinality(DestructiveInFlight') > Cardinality(DestructiveInFlight) =>
              /\ Pending
              /\ ~Pending'
              /\ Cardinality(DestructiveInFlight') = Cardinality(DestructiveInFlight) + 1 ]_vars

\* OK was hit twice for the deletion of SrcA: one request is in flight and
\* the second hit was ignored
C9_Witness ==
    /\ variant \in V4
    /\ last = Ignored
    /\ pendingSrc = Null
    /\ chunks = <<Doc2>>
    /\ net = <<Request("remove", SrcA)>>

(***************************************************************************)
(* C10.  After every successfully handled list response the chunk list     *)
(* equals exactly the documents of that response, the empty list when the  *)
(* field is absent: nothing of the previous list survives, whatever it     *)
(* held, an optimistically edited list included.                           *)
(***************************************************************************)
\* C10: the step that handles a successful list response leaves the chunk
\* list equal to the response's documents, or empty when it has none
C10_IngestReplaces ==
    [][ \A i \in 1..Len(net) : (net[i].kind = "list" /\ net[i].answered) =>
           LET r == OkResponse(net[i]) IN
           (refreshListResume(i, r) \/ refreshDocumentsResume(i, r)) =>
              ChunkList' = (IF r.hasDocuments THEN r.documents ELSE <<>>) ]_vars

\* a list response was handled while the removal of SrcA was awaited: the
\* optimistically edited list is replaced by the response's documents
C10_Witness ==
    /\ variant \in V4
    /\ chunks = ServerDocs
    /\ listHost = renderList(ServerDocs, searchValue)
    /\ net = <<Request("remove", SrcA)>>


(***************************************************************************)
(* C11.  When two list refreshes are in flight at once, the chunk list     *)
(* after both have been handled equals the documents of the response       *)
(* handled last, whichever request was issued first; no sequence number is *)
(* consulted.                                                              *)
(***************************************************************************)
\* C11: while another list request is in flight, before or after it in the
\* order of issue, the successful response of a list request replaces the
\* chunk list by its documents and leaves the other request in flight
C11_LastHandledWins ==
    [][ \A i \in 1..Len(net) : \A j \in 1..Len(net) :
           (i # j /\ net[i].kind = "list" /\ net[j].kind = "list" /\ net[i].answered) =>
              LET r == OkResponse(net[i]) IN
              refreshListResume(i, r) =>
                 /\ chunks' = (IF r.hasDocuments THEN r.documents ELSE <<>>)
                 /\ \E k \in 1..Len(net') : net'[k] = net[j] ]_vars

\* after an upload the delayed refresh was answered and handled before the
\* immediate one, which was answered before the file was stored and is
\* still in flight
C11_Witness ==
    /\ variant = "v43"
    /\ server = Append(ServerDocs, DocU)
    /\ chunks = Append(ServerDocs, DocU)
    /\ listTimers = 0
    /\ net = <<[Request("list", Null) EXCEPT !.answered = TRUE,
                                             !.documents = ServerDocs,
                                             !.hasDocuments = TRUE]>>


(***************************************************************************)
(* C12.  When a list refresh fails by transport failure, an error          *)
(* notification is enqueued and the previously rendered document view is   *)
(* preserved: it is not replaced by a loading or error placeholder.        *)
(***************************************************************************)
\* the list request i is handled with response r
ListHandled(i, r) ==
    /\ net[i].kind = "list"
    /\ refreshListResume(i, r) \/ refreshDocumentsResume(i, r)

\* C12: when a list request is handled with a transport failure, one error
\* notification is added and the page shows neither the loading nor the
\* could-not-load placeholder afterwards
C12_TransportFailureKeepsView ==
    [][ \A i \in 1..Len(net) :
           ListHandled(i, TransportFailure) =>
              /\ Len(notifications') = Len(notifications) + 1
              /\ notifications'[Len(notifications')].kind = "error"
              /\ listHost' \notin {Loading, CouldNotLoad} ]_vars

(***************************************************************************)
(* C13.  For every request, a response with HTTP status 401 or 403 yields  *)
(* an error outcome whose message is the distinct access-denied message,   *)
(* different from the message produced for any other non-OK status or for  *)
(* a transport failure.                                                    *)
(***************************************************************************)
\* the notifications the page's request wrapper raises for response r
Raised(r) == IF variant = "v2" THEN fetchData(r).notes ELSE api(r).notes

\* C13: the page's request wrapper raises one and the same notification for
\* status 401 and status 403, and it differs from the one raised for status
\* 500 and from the one raised for a transport failure
C13_AccessDeniedDistinct ==
    /\ Raised(HttpFailure("401")) = Raised(HttpFailure("403"))
    /\ Raised(HttpFailure("403")) # Raised(HttpFailure("500"))
    /\ Raised(HttpFailure("403")) # Raised(TransportFailure)


(***************************************************************************)
(* C14.  No request is retried automatically: a failed remove, clear or    *)
(* list request is never re-sent by the program; the only request the      *)
(* program issues on its own after a failure is the single list re-fetch   *)
(* that follows a failed destructive request, and a failed list fetch      *)
(* issues nothing further.                                                 *)
(***************************************************************************)
\* the destructive request i is handled with response r
DestructiveHandled(i, r) ==
    /\ Destructive(net[i])
    /\ executeDeletionResume(i, r) \/ executeActionResume(i, r)

\* C14: handling a failed list request leaves in flight exactly the other
\* requests and schedules none; handling a failed remove or clear leaves in
\* flight the other requests and at most one new list request, and
\* schedules none
C14_NoRetry ==
    [][ \A i \in 1..Len(net) : \A r \in Failures :
           LET rest == RemoveAt(net, i) IN
           /\ ListHandled(i, r) =>
                 /\ net' = rest
                 /\ UNCHANGED <<refreshTimers, listTimers>>
           /\ DestructiveHandled(i, r) =>
                 /\ net' \in {rest, Append(rest, Request("list", Null))}
                 /\ UNCHANGED <<refreshTimers, listTimers>> ]_vars

\* a removal has failed and its resync has failed too: nothing is in flight
\* or scheduled, and the page shows that it could not load
C14_Witness ==
    /\ variant \in V4
    /\ net = <<>>
    /\ refreshTimers = 0
    /\ listHost = CouldNotLoad
    /\ chunks # server
    /\ chunks # <<>>


(***************************************************************************)
(* C15.  For every chunk list with N records over K distinct sources,      *)
(* aggregation yields exactly K entries, one per source, and each entry's  *)
(* chunk count equals the number of records with that source and its total *)
(* size equals the sum of their sizes.                                     *)
(***************************************************************************)
\* the distinct sources of chunk list cs
SourcesOf(cs) == {cs[k].source : k \in 1..Len(cs)}

\* the number of records of cs with source s
CountOf(cs, s) == Cardinality({k \in 1..Len(cs) : cs[k].source = s})

\* the sum of the sizes of the records with source s among the first n of cs
RECURSIVE SizeUpTo(_, _, _)
SizeUpTo(cs, s, n) ==
    IF n = 0 THEN 0
    ELSE SizeUpTo(cs, s, n - 1)
         + (IF cs[n].source = s THEN cs[n].page_content_length ELSE 0)

\* the entries of view out are the aggregation of chunk list cs
Aggregates(out, cs) ==
    /\ out.state \in {"docs", "none"}
    /\ Len(out.docs) = Cardinality(SourcesOf(cs))
    /\ \A s \in SourcesOf(cs) :
          \E k \in 1..Len(out.docs) :
             /\ out.docs[k].src = s
             /\ out.docs[k].n = CountOf(cs, s)
             /\ out.docs[k].size = SizeUpTo(cs, s, Len(cs))

\* C15: a re-render with the empty query shows exactly one entry per
\* distinct source of the chunk list, with the number of its records and
\* the sum of their sizes
C15_OneEntryPerSource ==
    [][ \A id \in renderTimers :
           (searchValue = <<>> /\ debounceFires(id)) =>
              Aggregates(listHost', ChunkList) ]_vars


(***************************************************************************)
(* C16.  The aggregated documents are rendered in descending order of      *)
(* lastUpdate (the maximum observedAt of the source's chunks), and         *)
(* documents with equal lastUpdate appear in ascending lexicographic order *)
(* of source, independent of the order of records in the chunk list.       *)
(***************************************************************************)
\* the greatest when among the records of cs with source s
LastUpdateOf(cs, s) ==
    LET whens == {cs[k].when : k \in {j \in 1..Len(cs) : cs[j].source = s}}
    IN  CHOOSE w \in whens : \A v \in whens : v <= w

\* UTF-16 code unit of a character of the sources
CharCode(c) ==
    CASE c = "." -> 46  [] c = "A" -> 65  [] c = "a" -> 97  [] c = "b" -> 98
      [] c = "c" -> 99  [] c = "d" -> 100 [] c = "f" -> 102 [] c = "m" -> 109
      [] c = "n" -> 110 [] c = "o" -> 111 [] c = "p" -> 112 [] c = "r" -> 114
      [] c = "s" -> 115 [] c = "t" -> 116 [] c = "u" -> 117 [] c = "x" -> 120

\* string s comes before string t
RECURSIVE LexLess(_, _)
LexLess(s, t) ==
    IF t = <<>> THEN FALSE
    ELSE IF s = <<>> THEN TRUE
    ELSE IF CharCode(Head(s)) # CharCode(Head(t))
         THEN CharCode(Head(s)) < CharCode(Head(t))
         ELSE LexLess(Tail(s), Tail(t))

\* the entries of view out are in the order claimed for chunk list cs
InOrder(out, cs) ==
    \A k \in 1..(Len(out.docs) - 1) :
       LET a == out.docs[k].src
           b == out.docs[k + 1].src
       IN  \/ LastUpdateOf(cs, a) > LastUpdateOf(cs, b)
           \/ /\ LastUpdateOf(cs, a) = LastUpdateOf(cs, b)
              /\ LexLess(a, b)

\* C16: after a re-render that completes, the entries on the page are in
\* descending order of lastUpdate, entries of equal lastUpdate in ascending
\* order of source
C16_RenderedInOrder ==
    [][ \A id \in renderTimers :
           (~Throws(ChunkList) /\ debounceFires(id)) =>
              InOrder(listHost', ChunkList) ]_vars


(***************************************************************************)
(* C17.  For every chunk list and query q, the rendered set is exactly the *)
(* aggregated documents whose source contains q as a substring ignoring    *)
(* case; for the empty query it is every aggregated document; and applying *)
(* the same non-empty query to an already filtered result returns that     *)
(* result unchanged.                                                       *)
(***************************************************************************)
\* characters c and d are the same letter in either case
SameLetter(c, d) ==
    \/ c = d
    \/ \E p \in {<<"A", "a">>, <<"B", "b">>, <<"D", "d">>, <<"F", "f">>,
                 <<"P", "p">>, <<"T", "t">>, <<"X", "x">>} :
          {c, d} = {p[1], p[2]}

\* string s contains q as a substring when case is ignored
ContainsIgnoringCase(s, q) ==
    \E i \in 0..(Len(s) - Len(q)) :
       \A j \in 1..Len(q) : SameLetter(s[i + j], q[j])

\* the sources of the entries of view out
SourcesShown(out) == {out.docs[k].src : k \in 1..Len(out.docs)}

\* the entries of out that the filter of the scripts keeps for query q
Refiltered(out, q) ==
    SelectSeq(out.docs, LAMBDA d : includes(toLowerCase(d.src), toLowerCase(q)))

\* view out shows the documents of cs selected by query q
Filtered(out, cs, q) ==
    /\ out.state \in {"docs", "none"}
    /\ SourcesShown(out) = {s \in SourcesOf(cs) : ContainsIgnoringCase(s, q)}
    /\ Len(out.docs) = Cardinality(SourcesShown(out))
    /\ q = <<>> => SourcesShown(out) = SourcesOf(cs)
    /\ q # <<>> => Refiltered(out, q) = out.docs

\* C17: after a re-render the page shows exactly the aggregated documents
\* whose source contains the query ignoring case, all of them for the
\* empty query, and filtering what is shown by the same query removes
\* nothing
C17_ShowsMatchesOnly ==
    [][ \A id \in renderTimers :
           debounceFires(id) => Filtered(listHost', ChunkList, searchValue) ]_vars


(***************************************************************************)
(* C18.  Rendering with any search query leaves the chunk list and the     *)
(* PendingAction unchanged: a document hidden by the filter is still in    *)
(* the store, and clearing the query shows it again without a fetch.       *)
(***************************************************************************)
\* the document of source s is in the chunk list and the filter keeps it
\* from the page
Hidden(s) ==
    /\ listHost.state \in {"docs", "none"}
    /\ s \in SourcesOf(ChunkList)
    /\ s \notin SourcesShown(listHost)

\* C18: a re-render changes neither the chunk list nor the pending action
\* and sends no request, and with the query cleared it puts every hidden
\* document back on the page
C18_RenderKeepsStore ==
    [][ \A id \in renderTimers :
           debounceFires(id) =>
              /\ UNCHANGED <<chunks, allChunks, pendingSrc, pendingAction, net,
                             refreshTimers, listTimers>>
              /\ \A s \in SourcesOf(ChunkList) :
                    (Hidden(s) /\ searchValue = <<>>) => s \in SourcesShown(listHost') ]_vars

\* a filter has been rendered while a confirmation is open: a document of
\* the chunk list is not on the page, another is
C18_Witness ==
    /\ searchValue # <<>>
    /\ renderTimers = {}
    /\ Pending
    /\ listHost.state = "docs"
    /\ \E s \in SourcesOf(ChunkList) : Hidden(s)


(***************************************************************************)
(* C19.  Search input is debounced: each keystroke cancels the filter      *)
(* re-render scheduled by the previous keystroke, so a burst of keystrokes *)
(* each arriving within 300 ms of the previous one causes exactly one      *)
(* filter re-render, which happens only after 300 ms without a keystroke   *)
(* and uses the query value at that time.                                  *)
(***************************************************************************)
\* C19: a keystroke renders nothing and leaves scheduled only the
\* re-render it sets itself; the re-render that runs leaves none scheduled
\* and shows the chunk list filtered by the value the input has then
C19_OneRenderPerBurst ==
    [][ /\ \A q \in Queries :
              searchInput(q) =>
                 /\ listHost' = listHost
                 /\ renderTimers' = {debounceT'}
        /\ \A id \in renderTimers :
              debounceFires(id) =>
                 /\ id = debounceT
                 /\ renderTimers' = {}
                 /\ listHost' = Shown(render(ChunkList, searchValue)) ]_vars

\* a keystroke of a burst has just replaced the re-render the previous
\* keystroke had scheduled; the page still shows the earlier rendering
C19_Witness ==
    /\ last = Rescheduled
    /\ Cardinality(renderTimers) = 1
    /\ searchValue = <<"P", "D">>
    /\ listHost = render(ChunkList, <<>>)
    /\ listHost # render(ChunkList, searchValue)


(***************************************************************************)
(* C20.  Every enqueued notification is appended as its own entry, also    *)
(* when an identical message is already visible, and each entry is removed *)
(* from the visible stack when its own 5-second timeout fires, independent *)
(* of user actions and of other notifications.                             *)
(***************************************************************************)
\* everything on the page and in the scripts but the notification stack
\* and the mark of the last step
BesidesNotifications ==
    <<variant, SideVars, server, net, V4Vars, V2Vars, listHost>>

\* C20: raising a notification appends one entry whatever the stack holds;
\* a step that does not shorten the stack keeps every entry in its place;
\* a step that shortens it removes the oldest entry alone, the one whose
\* timeout is due, and changes nothing else
C20_OwnEntryOwnTimeout ==
    [][ /\ \A n \in Notes :
              notify(n.msg, n.kind) => notifications' = Append(notifications, n)
        /\ Len(notifications') >= Len(notifications) =>
              SubSeq(notifications', 1, Len(notifications)) = notifications
        /\ Len(notifications') < Len(notifications) =>
              /\ notifications' = Tail(notifications)
              /\ UNCHANGED BesidesNotifications ]_vars

\* the same message is on the page twice, as two entries, while the user
\* has typed a query that is not rendered yet
C20_Witness ==
    /\ Len(notifications) = 2
    /\ notifications[1] = notifications[2]
    /\ searchValue # <<>>
    /\ renderTimers # {}


(***************************************************************************)
(* C21.  Opening the info panel for a source that has zero chunks in the   *)
(* current chunk list (e.g. a source just removed optimistically) yields   *)
(* an average chunk size of 0 (or omits it) and never a division fault or  *)
(* undefined value; for a source with n > 0 chunks the average is total    *)
(* size divided by n.                                                      *)
(***************************************************************************)
\* the amount shown, in bytes, is the fraction num / den rounded as the
\* unit allows
ShowsFraction(shown, num, den) ==
    LET scale == CASE shown.unit = "Bytes" -> 1
                   [] shown.unit = "KB" -> 1024
                   [] shown.unit = "MB" -> 1024 * 1024
                   [] OTHER -> 0
        diff  == shown.hundredths * scale * den - 100 * num
    IN  /\ scale # 0
        /\ 2 * diff <= scale * den
        /\ -(2 * diff) <= scale * den

\* C21: the panel opened for a source without chunks shows an average of
\* 0 Bytes; opened for a source with n > 0 chunks it shows their total size
\* divided by n, in a unit of the list
C21_AverageDefined ==
    [][ \A src \in Sources :
           showInfoPanel(src) =>
              LET n     == CountOf(chunks, src)
                  total == SizeUpTo(chunks, src, Len(chunks))
                  shown == infoPanel'.body[1].average
              IN  /\ n = 0 => shown = ZeroBytes
                  /\ n > 0 => ShowsFraction(shown, total, n) ]_vars


(***************************************************************************)
(* C22.  Closing the info panel hides it and clears its content, and       *)
(* opening it for source B after it showed source A leaves only data of B  *)
(* in the panel: in no reachable state does the panel hold content of a    *)
(* source other than the one most recently opened, and after a close it    *)
(* holds no content.                                                       *)
(***************************************************************************)
\* C22: opening the panel for a source leaves in its body the markup of
\* that source alone, whatever it held; closing it hides it and leaves its
\* body empty
C22_PanelHoldsLastOpenedOnly ==
    [][ /\ \A src \in Sources :
              showInfoPanel(src) =>
                 /\ infoPanel'.visible
                 /\ infoPanel'.body = <<InfoBody(chunks, src)>>
        /\ closeInfo =>
              /\ ~infoPanel'.visible
              /\ infoPanel'.body = <<>> ]_vars


(***************************************************************************)
(* C23.  In every reachable state at most one floating action menu exists: *)
(* invoking the open trigger of the row whose menu is already open closes  *)
(* it and opens none, invoking the trigger of a different row removes the  *)
(* open menu and opens that row's menu, and an outside click or escape     *)
(* removes the open menu.                                                  *)
(***************************************************************************)
\* C23: after every step at most one menu is in the body; the button of
\* the row whose menu is open leaves none, the button of another row
\* leaves the menu of that row alone, and a click elsewhere or the Escape
\* key leaves none
C23_OneMenu ==
    [][ /\ Len(actionMenu') <= 1
        /\ \A k \in 1..Len(listHost.docs) :
              toggleActionMenu(k) =>
                 actionMenu' = (IF actionMenu = <<listHost.docs[k]>>
                                THEN <<>>
                                ELSE <<listHost.docs[k]>>)
        /\ (keydownEscape \/ \E onModal \in BOOLEAN : documentClick(onModal)) =>
              actionMenu' = <<>> ]_vars

\* the menu of the second row is open; it was opened while the menu of
\* another row was open
C23_Witness ==
    /\ last = Replaced
    /\ Len(listHost.docs) >= 2
    /\ actionMenu = <<listHost.docs[2]>>


(***************************************************************************)
(* C24.  At initialization, when the enclosing context's theme is readable *)
(* and present it is applied and no preference subscription is made; when  *)
(* the access is denied or the value is absent, the theme is set from the  *)
(* environment's light/dark preference and, after any sequence of          *)
(* preference-change signals, the applied theme equals the most recent     *)
(* preference.                                                             *)
(***************************************************************************)
\* the enclosing document's theme could be read and was not empty
ParentReadable == theme.parent \notin {Denied, Absent}

\* the page has the enclosing theme if that was readable and follows no
\* preference, and has the current preference otherwise
FromContextOrPreference ==
    IF ParentReadable
    THEN theme.applied = theme.parent /\ ~theme.subscribed
    ELSE theme.applied = preferred(theme.matches)

RECURSIVE IsSubSeq(_, _)
IsSubSeq(a, b) ==
    IF a = <<>> THEN TRUE
    ELSE IF b = <<>> THEN FALSE
    ELSE IF Head(a) = Head(b) THEN IsSubSeq(Tail(a), Tail(b))
         ELSE IsSubSeq(a, Tail(b))

\* the step handles the successful response of a list request and makes
\* its documents the chunk list
IngestsList ==
    \E i \in 1..Len(net) :
       /\ net[i].kind = "list"
       /\ net[i].answered
       /\ ListHandled(i, OkResponse(net[i]))
       /\ ChunkList' = net[i].documents

\* C25: a step either leaves the chunk list as it is, or makes it the
\* documents of the successful list response it handles, or takes all
\* records of one source out of it, a sub-sequence of what it was; so the
\* chunk list, empty at first, is always a sub-sequence of the documents
\* of the last successful list response handled
C25_OnlyRemovalsLocally ==
    [][ \/ ChunkList' = ChunkList
        \/ IngestsList
        \/ /\ IsSubSeq(ChunkList', ChunkList)
           /\ \E src \in SourcesOf(ChunkList) :
                 ChunkList' = Without(ChunkList, src) ]_vars

\* the removal of a source has been confirmed and not yet reached the
\* backend: the chunk list is the last list response without that source
C25_Witness ==
    /\ variant \in V4
    /\ server = ServerDocs
    /\ chunks = <<Doc1, Doc3>>
    /\ net = <<Request("remove", SrcB)>>


(***************************************************************************)
(* C26.  Opening a confirmation for source B while a confirmation for      *)
(* source A is still Pending replaces the pending target: a following      *)
(* confirm sends exactly one remove request, for B, and removes only B's   *)
(* records from the chunk list; A is neither removed locally nor requested *)
(* for removal.                                                            *)
(***************************************************************************)
\* the source the pending confirmation is for
PendingTarget == IF variant = "v2" THEN pendingAction.source ELSE pendingSrc

\* C26: a confirmation opened for a source while one is pending makes that
\* source the pending target; the confirm that follows the replacement
\* sends one request, a remove for the new target, and leaves in the chunk
\* list every record of every other source (in the v4 scripts it takes out
\* the records of the new target)
C26_LastOpenedIsRemoved ==
    [][ /\ \A src \in Sources :
              (Pending /\ (openConfirmModal(src) \/ confirmRemoveDocument(src))) =>
                 PendingTarget' = src
        /\ (last = Replaced /\ Pending /\ (executeDeletion \/ executeAction)) =>
              /\ net' = Append(net, Request("remove", PendingTarget))
              /\ \A a \in Sources \ {PendingTarget} :
                    OfSource(ChunkList', a) = OfSource(ChunkList, a)
              /\ variant \in V4 => ChunkList' = Without(ChunkList, PendingTarget) ]_vars

\* the confirmation for SrcB has just replaced the one for SrcA, both are
\* on the page, and a confirm can follow
C26_Witness ==
    /\ last = Replaced
    /\ Pending
    /\ PendingTarget = SrcB
    /\ OnPage(SrcA)
    /\ Load < MaxInFlight


(***************************************************************************)
(* C27.  A list refresh that fails (transport failure, non-OK status, or a *)
(* response with success = false) leaves the chunk list and the            *)
(* PendingAction unchanged; only the rendered list view is replaced by the *)
(* could-not-load state, so a later filter re-render shows the documents   *)
(* of the unchanged chunk list again.                                      *)
(***************************************************************************)
\* chunk lists the page has loaded before the list is refreshed again
ReloadLists == {<<>>, <<Doc1, Doc2>>, <<Doc1, DocP>>}

\* the page with a loaded chunk list and no request in flight
InitReload == InitSearch /\ server \in ReloadLists

\* the list is refreshed again (v2: by the refresh button; v4: after a
\* removal that failed) while the user types in the search input
NextReload ==
    \/ refreshDocuments
    \/ \E i \in 1..Len(net) : \E r \in Responses(net[i]) : refreshDocumentsResume(i, r)
    \/ \E src \in Sources : openConfirmModal(src)
    \/ closeConfirm
    \/ executeDeletion
    \/ \E i \in 1..Len(net) : \E r \in Responses(net[i]) : executeDeletionResume(i, r)
    \/ \E i \in 1..Len(net) : \E r \in Responses(net[i]) : refreshListResume(i, r)
    \/ \E i \in 1..Len(net) : ServerProcess(i)
    \/ NotificationTimeout
    \/ \E q \in Queries : searchInput(q)
    \/ \E id \in renderTimers : debounceFires(id)

ReloadSpec == InitReload /\ [][NextReload]_vars

\* view out shows the documents of chunk list cs that query q selects
ShowsDocumentsOf(out, cs, q) ==
    /\ out.state \in {"docs", "none"}
    /\ SourcesShown(out) = {s \in SourcesOf(cs) : ContainsIgnoringCase(s, q)}

\* C27: a list response that is a failure leaves the chunk list and the
\* pending action as they were and puts the could-not-load text on the
\* page, and a re-render of a page that shows this text shows the
\* documents of the chunk list that the search query selects
C27_FailedRefreshKeepsStore ==
    [][ /\ \A i \in 1..Len(net) : \A r \in Failures :
              ListHandled(i, r) =>
                 /\ ChunkList' = ChunkList
                 /\ pendingSrc' = pendingSrc
                 /\ pendingAction' = pendingAction
                 /\ listHost' = CouldNotLoad
        /\ \A id \in renderTimers :
              (listHost = CouldNotLoad /\ debounceFires(id)) =>
                 ShowsDocumentsOf(listHost', ChunkList, searchValue) ]_vars


(***************************************************************************)
(* C28.  When the remove request of a confirmed deletion fails at          *)
(* transport level or with a non-OK status, two error notifications are    *)
(* enqueued for that single failure, one by the request wrapper and one    *)
(* 'Deletion failed' entry by the controller; when the response arrives    *)
(* with success = false, exactly one error notification is enqueued.       *)
(***************************************************************************)
\* the notifications a step enqueues
Enqueued == SubSeq(notifications', Len(notifications) + 1, Len(notifications'))

\* notification n is a 'Deletion failed' entry
IsDeletionFailed(n) == n.kind = "error" /\ n.msg[1] = "Deletion failed: "

\* the failures in transport or with a non-OK status
Unanswered == {TransportFailure, HttpFailure("403"), HttpFailure("500")}
\* the responses with success = false
Refusals == {Refusal(ServerErrMsg), Refusal(NoMsg)}

====
